---- MODULE Spec2Model ----
(***************************************************************************)
(* Equipment scanner (IBCRS): the FastAPI service of server/main.py and    *)
(* the interactive camera loop of ml/webcam.py.                            *)
(*                                                                         *)
(* Strings are sequences of one-character strings.  Confidences are        *)
(* integers in units of 1e-4 before rounding and in units of 1e-3 after    *)
(* round(conf, 3).  Bytes are integers 0..255.                             *)
(***************************************************************************)
EXTENDS Integers, Sequences, FiniteSets, TLC

VARIABLES
  pc,             \* server: position of the module-level code / request cycle
  envEquipment,   \* server: equipment.json on disk (absent, or its key/value pairs)
  envModel,       \* server: model/best.pt on disk (absent, or the artifact)
  equipment_db,   \* server: global equipment_db
  model,          \* server: global model (the loaded detector)
  routes,         \* server: routes registered on app
  req,            \* server: <<image>> of the request being answered, or <<>>
  resp,           \* server: the response to req
  detCalls,       \* server: detector invocations made for req, with their outcomes
  log,            \* server: completed (image, response, globals) exchanges
  result,         \* format_detections: its argument
  detections,     \* format_detections: its return value
  cam             \* camera loop: the state of ml/webcam.py

vars == <<pc, envEquipment, envModel, equipment_db, model, routes, req, resp,
          detCalls, log, result, detections, cam>>

serverVars == <<pc, envEquipment, envModel, equipment_db, model, routes, req,
                resp, detCalls, log>>
fmtVars == <<result, detections>>

(***************************************************************************)
(* Bounds of the model.                                                    *)
(***************************************************************************)
MaxLen == 5        \* longest submitted image string
MaxBoxes == 3      \* most candidates in one detector result
MaxLog == 3        \* most exchanges kept in the log
MaxFrames == 2     \* most frames the camera delivers

None == "None"

(***************************************************************************)
(* Characters.  NonAscii stands for one code point above U+007F.           *)
(***************************************************************************)
NonAscii == "U+00E9"
Alphabet == {",", "/", "A", "=", "!", NonAscii}

Strs(n) == UNION {[1..k -> Alphabet] : k \in 0..n}

\* str.lower() on the letters the labels and keys use
LowerChar(c) ==
  CASE c = "W" -> "w" [] c = "R" -> "r" [] c = "E" -> "e" [] c = "N" -> "n"
    [] c = "C" -> "c" [] c = "H" -> "h" [] c = "D" -> "d" [] c = "I" -> "i"
    [] c = "L" -> "l" [] OTHER -> c

lower(s) == [i \in 1..Len(s) |-> LowerChar(s[i])]

(***************************************************************************)
(* decode_image                                                            *)
(***************************************************************************)
\* data_url.split(",", 1): the text after the first comma, or all of it
RECURSIVE FirstComma(_, _)
FirstComma(s, i) ==
  IF i > Len(s) THEN 0
  ELSE IF s[i] = "," THEN i
  ELSE FirstComma(s, i + 1)

Payload(data_url) ==
  LET c == FirstComma(data_url, 1)
  IN IF c > 0 THEN SubSeq(data_url, c + 1, Len(data_url)) ELSE data_url

\* the base64 alphabet's sextet of a character; 64 for a character outside it
B64Val(ch) == CASE ch = "A" -> 0 [] ch = "/" -> 63 [] OTHER -> 64

\* binascii.a2b_base64 without strict_mode, as base64.b64decode calls it
RECURSIVE a2b_base64(_, _, _, _, _, _)
a2b_base64(s, i, quad_pos, leftchar, pads, out) ==
  IF i > Len(s)
  THEN IF quad_pos # 0 THEN [ok |-> FALSE, bytes |-> <<>>]
       ELSE [ok |-> TRUE, bytes |-> out]
  ELSE IF s[i] = "="
  THEN IF quad_pos >= 2 /\ quad_pos + pads + 1 >= 4
       THEN [ok |-> TRUE, bytes |-> out]
       ELSE a2b_base64(s, i + 1, quad_pos, leftchar,
                       IF quad_pos >= 2 THEN pads + 1 ELSE pads, out)
  ELSE IF B64Val(s[i]) >= 64
  THEN a2b_base64(s, i + 1, quad_pos, leftchar, pads, out)
  ELSE LET v == B64Val(s[i]) IN
       CASE quad_pos = 0 -> a2b_base64(s, i + 1, 1, v, 0, out)
         [] quad_pos = 1 ->
              a2b_base64(s, i + 1, 2, v % 16, 0,
                         Append(out, (leftchar * 4 + v \div 16) % 256))
         [] quad_pos = 2 ->
              a2b_base64(s, i + 1, 3, v % 4, 0,
                         Append(out, (leftchar * 16 + v \div 4) % 256))
         [] OTHER ->
              a2b_base64(s, i + 1, 0, 0, 0,
                         Append(out, (leftchar * 64 + v) % 256))

\* base64.b64decode(data) on a str: ASCII only, then a2b_base64
b64decode(data) ==
  IF \E i \in 1..Len(data) : data[i] = NonAscii
  THEN [ok |-> FALSE, bytes |-> <<>>]
  ELSE a2b_base64(data, 1, 0, 0, 0, <<>>)

\* cv2.imdecode(np_arr, cv2.IMREAD_COLOR): an empty buffer fails OpenCV's
\* assertion !buf.empty() (cv2.error); a buffer that does not start with an
\* image signature (here the byte 0xFF) gives None; any other gives a frame
imdecode(np_arr) ==
  IF Len(np_arr) = 0 THEN [kind |-> "cv2.error"]
  ELSE IF np_arr[1] # 255 THEN [kind |-> "None"]
  ELSE [kind |-> "frame", frame |-> np_arr]

decode_image(data_url) ==
  LET raw == b64decode(Payload(data_url)) IN
  IF ~raw.ok THEN [kind |-> "ValueError", msg |-> "Invalid base64 string"]
  ELSE LET frame == imdecode(raw.bytes) IN
       IF frame.kind = "None"
       THEN [kind |-> "ValueError", msg |-> "Unable to decode image"]
       ELSE frame

(***************************************************************************)
(* Labels, the reference table and the detector                            *)
(***************************************************************************)
Wrench == <<"W", "r", "e", "n", "c", "h">>
WRENCH == <<"W", "R", "E", "N", "C", "H">>
wrench == <<"w", "r", "e", "n", "c", "h">>
Drill == <<"D", "r", "i", "l", "l">>
DRILL == <<"D", "R", "I", "L", "L">>

NoSource == [exists |-> FALSE]

\* equipment.json: absent, or a JSON object read as its key/value pairs in order
EquipFile ==
  [exists |-> TRUE,
   items |-> << <<Wrench, "torque">>, <<DRILL, "cordless">>, <<wrench, "spanner">> >>]

EquipSources == {NoSource, EquipFile}

\* further reference tables format_detections is applied under
EquipTables ==
  EquipSources \cup {[exists |-> TRUE, items |-> << <<wrench, "spanner">> >>]}

\* the class-id-to-name tables an artifact may carry (result.names)
NamesTables ==
  { (0 :> Wrench) @@ (1 :> Drill),
    (0 :> WRENCH) @@ (1 :> wrench) @@ (2 :> Drill) }

ClassIds == {0, 1, 2}

\* conf=0.3 of the service's detector call and conf=0.4 of the camera loop's
ConfThreshold == 3000
CamConfThreshold == 4000

\* raw confidences, in units of 1e-4: 0.3125 and 0.4375 are exact binary
\* fractions, so round(conf, 3) meets a tie on them
RawConfs == {c \in {3124, 3125, 4375, 9100} : c >= ConfThreshold}

\* box.xyxy[0] of the i-th box the detector emits: boxes are pairwise distinct
Box(cls, conf, i) ==
  [cls |-> cls, conf |-> conf,
   xyxy |-> <<10 * i, 10 * i + 1, 10 * i + 5, 10 * i + 6>>]

MkBoxes(cs) == [i \in 1..Len(cs) |-> Box(cs[i][1], cs[i][2], i)]

BoxLists(n) ==
  {MkBoxes(cs) : cs \in UNION {[1..k -> ClassIds \X RawConfs] : k \in 0..n}}

\* the outcome of one detector call: an exception, or the list it returns
Raise == [kind |-> "raise"]
Returned(results) == [kind |-> "results", results |-> results]

\* what model(frame, conf=0.3) may do for a frame: throw, return an empty
\* list, or return one result (its name table added by Infer)
DetectorOutcomes ==
  << Raise,
     Returned(<<>>),
     Returned(<< MkBoxes(<<>>) >>),
     Returned(<< MkBoxes(<< <<0, 9100>> >>) >>),
     Returned(<< MkBoxes(<< <<1, 4375>>, <<0, 9100>> >>) >>),
     Returned(<< MkBoxes(<< <<2, 3124>>, <<0, 3125>>, <<1, 3124>> >>) >>) >>

\* model/best.pt: absent, or an artifact (a name table and weights)
ModelSources ==
  {NoSource} \cup
  {[exists |-> TRUE, names |-> n, weights |-> w] :
     n \in NamesTables, w \in 0..(Len(DetectorOutcomes) - 1)}

NoModel == [loaded |-> FALSE]

\* YOLO(str(MODEL_PATH))
YOLO(artifact) ==
  [loaded |-> TRUE, names |-> artifact.names, weights |-> artifact.weights]

RECURSIVE SumSeq(_)
SumSeq(s) == IF s = <<>> THEN 0 ELSE Head(s) + SumSeq(Tail(s))

\* model(frame, conf=0.3): the detector is a fixed function of its weights
\* and the frame
Infer(m, frame) ==
  LET out == DetectorOutcomes[((m.weights + SumSeq(frame) + Len(frame))
                                 % Len(DetectorOutcomes)) + 1]
  IN IF out.kind = "raise" THEN out
     ELSE Returned([i \in 1..Len(out.results) |->
                      [names |-> m.names, boxes |-> out.results[i]]])

(***************************************************************************)
(* load_equipment_data, attach_details, format_detections                  *)
(***************************************************************************)
\* {k.lower(): v for k, v in data.items()}: a later pair replaces an earlier
RECURSIVE LowerKeys(_)
LowerKeys(items) ==
  IF items = <<>> THEN <<>>
  ELSE LET last == items[Len(items)]
       IN (lower(last[1]) :> last[2]) @@ LowerKeys(SubSeq(items, 1, Len(items) - 1))

load_equipment_data(source) ==
  IF source.exists THEN LowerKeys(source.items) ELSE <<>>

\* mutant of attach_details: the label is looked up as it is, not lower-cased
attach_details_exact(label) ==
  IF label \in DOMAIN equipment_db THEN equipment_db[label] ELSE None

attach_details(label) ==
  LET key == lower(label)
  IN IF key \in DOMAIN equipment_db THEN equipment_db[key] ELSE None

\* str(n) for n >= 0
Digit(d) == <<"0", "1", "2", "3", "4", "5", "6", "7", "8", "9">>[d + 1]

RECURSIVE IntToStr(_)
IntToStr(n) ==
  IF n < 10 THEN <<Digit(n)>> ELSE Append(IntToStr(n \div 10), Digit(n % 10))

\* names.get(cls_id, f"class_{cls_id}")
ResolveLabel(names, cls_id) ==
  IF cls_id \in DOMAIN names THEN names[cls_id]
  ELSE <<"c", "l", "a", "s", "s", "_">> \o IntToStr(cls_id)

\* round(conf, 3): to the nearest thousandth, an exact tie to the even one
Round3(conf) ==
  LET q == conf \div 10
      r == conf % 10
  IN IF r < 5 THEN q
     ELSE IF r > 5 THEN q + 1
     ELSE IF q % 2 = 0 THEN q ELSE q + 1

\* the record appended for one box
DetectionRecord(names, box) ==
  LET label == ResolveLabel(names, box.cls)
  IN [label |-> label,
      confidence |-> Round3(box.conf),
      bbox |-> [x1 |-> box.xyxy[1], y1 |-> box.xyxy[2],
                x2 |-> box.xyxy[3], y2 |-> box.xyxy[4]],
      details |-> attach_details(label)]

\* sorted(detections, key=confidence, reverse=True): stable, so a record goes
\* behind every record already placed whose confidence is not smaller
RECURSIVE InsertDesc(_, _)
InsertDesc(sorted, d) ==
  IF sorted = <<>> THEN <<d>>
  ELSE IF Head(sorted).confidence >= d.confidence
  THEN <<Head(sorted)>> \o InsertDesc(Tail(sorted), d)
  ELSE <<d>> \o sorted

RECURSIVE SortedDesc(_)
SortedDesc(ds) ==
  IF ds = <<>> THEN <<>>
  ELSE InsertDesc(SortedDesc(SubSeq(ds, 1, Len(ds) - 1)), ds[Len(ds)])

\* a stable ascending sort, and a sequence reversed
RECURSIVE InsertAsc(_, _)
InsertAsc(sorted, d) ==
  IF sorted = <<>> THEN <<d>>
  ELSE IF Head(sorted).confidence <= d.confidence
  THEN <<Head(sorted)>> \o InsertAsc(Tail(sorted), d)
  ELSE <<d>> \o sorted

RECURSIVE SortedAsc(_)
SortedAsc(ds) ==
  IF ds = <<>> THEN <<>>
  ELSE InsertAsc(SortedAsc(SubSeq(ds, 1, Len(ds) - 1)), ds[Len(ds)])

Reversed(s) == [i \in 1..Len(s) |-> s[Len(s) + 1 - i]]

\* mutant of format_detections: sorted(...) without reverse=True
format_detections_ascending(res) ==
  SortedAsc([i \in 1..Len(res.boxes) |-> DetectionRecord(res.names, res.boxes[i])])

\* mutant of format_detections: sorted(...)[::-1], which turns ties around
format_detections_reversed(res) ==
  Reversed(SortedAsc([i \in 1..Len(res.boxes) |->
                        DetectionRecord(res.names, res.boxes[i])]))

format_detections(res) ==
  SortedDesc([i \in 1..Len(res.boxes) |-> DetectionRecord(res.names, res.boxes[i])])

(***************************************************************************)
(* The service: module-level start-up code, then requests                  *)
(***************************************************************************)
NoResp == [status |-> 0]
NoResult == [names |-> <<>>, boxes |-> <<>>]
CamOff == [pc |-> "off"]

Routes == {"GET /", "POST /api/scan", "mount /"}

Unhandled == [status |-> 500, detail |-> "Internal Server Error"]

ServerInit ==
  /\ pc = "load_equipment"
  /\ envEquipment \in EquipSources
  /\ envModel \in ModelSources
  /\ equipment_db = <<>>
  /\ model = NoModel
  /\ routes = {}
  /\ req = <<>>
  /\ resp = NoResp
  /\ detCalls = <<>>
  /\ log = <<>>
  /\ result = NoResult
  /\ detections = <<>>
  /\ cam = CamOff

\* equipment_db = load_equipment_data()
LoadEquipment ==
  /\ pc = "load_equipment"
  /\ equipment_db' = load_equipment_data(envEquipment)
  /\ pc' = "load_model"
  /\ UNCHANGED <<envEquipment, envModel, model, routes, req, resp, detCalls, log,
                 result, detections, cam>>

\* mutant of LoadModel: no check that the artifact exists
LoadModelUnchecked ==
  /\ pc = "load_model"
  /\ model' = IF envModel.exists THEN YOLO(envModel) ELSE model
  /\ pc' = "create_app"
  /\ UNCHANGED <<envEquipment, envModel, equipment_db, routes, req, resp, detCalls,
                 log, result, detections, cam>>

\* if not MODEL_PATH.exists(): raise FileNotFoundError;  model = YOLO(...)
LoadModel ==
  /\ pc = "load_model"
  /\ \/ /\ ~envModel.exists
        /\ pc' = "FileNotFoundError"
        /\ model' = model
     \/ /\ envModel.exists
        /\ model' = YOLO(envModel)
        /\ pc' = "create_app"
  /\ UNCHANGED <<envEquipment, envModel, equipment_db, routes, req, resp, detCalls,
                 log, result, detections, cam>>

\* app = FastAPI(...), the route decorators and app.mount
CreateApp ==
  /\ pc = "create_app"
  /\ routes' = Routes
  /\ pc' = "serving"
  /\ UNCHANGED <<envEquipment, envModel, equipment_db, model, req, resp, detCalls,
                 log, result, detections, cam>>

\* mutant of ScanResponse: count and found taken over the enriched records only
ScanResponseEnrichedCount(image) ==
  LET d == decode_image(image) IN
  IF d.kind = "ValueError"
  THEN [resp |-> [status |-> 400, detail |-> d.msg], calls |-> <<>>]
  ELSE IF d.kind = "cv2.error"
  THEN [resp |-> Unhandled, calls |-> <<>>]
  ELSE LET out == Infer(model, d.frame) IN
       IF out.kind = "raise"
       THEN [resp |-> Unhandled, calls |-> <<out>>]
       ELSE IF out.results = <<>>
       THEN [resp |-> [status |-> 500, detail |-> "Model did not return results"],
             calls |-> <<out>>]
       ELSE LET dets == format_detections(out.results[1])
                n == Cardinality({k \in 1..Len(dets) : dets[k].details # None})
            IN [resp |-> [status |-> 200,
                          body |-> [found |-> n > 0,
                                    count |-> n,
                                    detections |-> dets]],
                calls |-> <<out>>]

\* the body of scan for one image: the response and the detector calls made
ScanResponse(image) ==
  LET d == decode_image(image) IN
  IF d.kind = "ValueError"
  THEN [resp |-> [status |-> 400, detail |-> d.msg], calls |-> <<>>]
  ELSE IF d.kind = "cv2.error"
  THEN [resp |-> Unhandled, calls |-> <<>>]
  ELSE LET out == Infer(model, d.frame) IN
       IF out.kind = "raise"
       THEN [resp |-> Unhandled, calls |-> <<out>>]
       ELSE IF out.results = <<>>
       THEN [resp |-> [status |-> 500, detail |-> "Model did not return results"],
             calls |-> <<out>>]
       ELSE LET dets == format_detections(out.results[1]) IN
            [resp |-> [status |-> 200,
                       body |-> [found |-> Len(dets) > 0,
                                 count |-> Len(dets),
                                 detections |-> dets]],
             calls |-> <<out>>]

\* mutant of scan: the lookup is equipment_db.pop(key, None), so an entry
\* handed out once is gone for the requests that follow
scan_popping(image) ==
  /\ pc = "serving"
  /\ "POST /api/scan" \in routes
  /\ LET r == ScanResponse(image)
         used == IF r.resp.status = 200
                 THEN {lower(r.resp.body.detections[k].label) :
                         k \in 1..r.resp.body.count}
                 ELSE {}
     IN /\ req' = <<image>>
        /\ resp' = r.resp
        /\ detCalls' = r.calls
        /\ equipment_db' = [k \in (DOMAIN equipment_db) \ used |-> equipment_db[k]]
  /\ UNCHANGED <<pc, envEquipment, envModel, model, routes, log,
                 result, detections, cam>>

\* POST /api/scan: the handler has no await, so it runs to its response
scan(image) ==
  /\ pc = "serving"
  /\ "POST /api/scan" \in routes
  /\ LET r == ScanResponse(image)
     IN /\ req' = <<image>>
        /\ resp' = r.resp
        /\ detCalls' = r.calls
  /\ UNCHANGED <<pc, envEquipment, envModel, equipment_db, model, routes, log,
                 result, detections, cam>>

\* the response leaves; the handler's locals are gone
Send ==
  /\ req # <<>>
  /\ req' = <<>>
  /\ resp' = NoResp
  /\ detCalls' = <<>>
  /\ UNCHANGED <<pc, envEquipment, envModel, equipment_db, model, routes, log,
                 result, detections, cam>>

Next ==
  \/ LoadEquipment
  \/ LoadModel
  \/ CreateApp
  \/ /\ req = <<>>
     /\ \E image \in Strs(MaxLen) : scan(image)
  \/ Send

Spec == ServerInit /\ [][Next]_vars

(***************************************************************************)
(* The service with a log of its exchanges, on a few images                *)
(***************************************************************************)
ProbeImages ==
  { <<>>,
    <<"/", "/", "=", "=">>,
    <<",", "/", "/", "A", "=">>,
    <<"/", "/">>,
    <<"A", "A", "=", "=">> }

\* Send, with the exchange and the globals it ran under written to the log
SendLogged ==
  /\ req # <<>>
  /\ Len(log) < MaxLog
  /\ log' = Append(log, [image |-> req[1], resp |-> resp,
                         equipment_db |-> equipment_db, model |-> model])
  /\ req' = <<>>
  /\ resp' = NoResp
  /\ detCalls' = <<>>
  /\ UNCHANGED <<pc, envEquipment, envModel, equipment_db, model, routes,
                 result, detections, cam>>

LogNext ==
  \/ LoadEquipment
  \/ LoadModel
  \/ CreateApp
  \/ /\ req = <<>>
     /\ \E image \in ProbeImages : scan(image)
  \/ SendLogged

LogSpec == ServerInit /\ [][LogNext]_vars

(***************************************************************************)
(* format_detections on every detector result within the bounds            *)
(***************************************************************************)
Results == {[names |-> n, boxes |-> b] : n \in NamesTables, b \in BoxLists(MaxBoxes)}

FmtInit ==
  /\ pc = "format_call"
  /\ envEquipment \in EquipTables
  /\ equipment_db = load_equipment_data(envEquipment)
  /\ envModel = NoSource
  /\ model = NoModel
  /\ routes = {}
  /\ req = <<>>
  /\ resp = NoResp
  /\ detCalls = <<>>
  /\ log = <<>>
  /\ result \in Results
  /\ detections = <<>>
  /\ cam = CamOff

FormatDetections ==
  /\ pc = "format_call"
  /\ detections' = format_detections(result)
  /\ pc' = "format_return"
  /\ UNCHANGED <<envEquipment, envModel, equipment_db, model, routes, req, resp,
                 detCalls, log, result, cam>>

FmtNext == FormatDetections

FmtSpec == FmtInit /\ [][FmtNext]_vars

(***************************************************************************)
(* The camera loop of ml/webcam.py                                         *)
(***************************************************************************)
\* f"{conf:.2f}": to the nearest hundredth, an exact tie to the even one
Round2(conf) ==
  LET q == conf \div 100
      r == conf % 100
  IN IF r < 50 THEN q
     ELSE IF r > 50 THEN q + 1
     ELSE IF q % 2 = 0 THEN q ELSE q + 1

\* what model(frame, conf=0.4, imgsz=960) may do: throw, return an empty
\* list, or return one result whose boxes pass the threshold
CamOutcomes ==
  {Raise, Returned(<<>>)} \cup
  {Returned(<<b>>) : b \in {x \in BoxLists(MaxBoxes) :
                              \A i \in 1..Len(x) : x[i].conf >= CamConfThreshold}}

\* the labels the for loop has drawn when it ends or fails: model.names[cls_id]
\* raises KeyError on a class id the name table lacks
RECURSIVE DrawBoxes(_, _, _)
DrawBoxes(names, boxes, drawn) ==
  IF boxes = <<>> THEN [ok |-> TRUE, drawn |-> drawn]
  ELSE IF Head(boxes).cls \notin DOMAIN names THEN [ok |-> FALSE, drawn |-> drawn]
  ELSE DrawBoxes(names, Tail(boxes),
                 Append(drawn, [name |-> names[Head(boxes).cls],
                                conf |-> Round2(Head(boxes).conf),
                                at |-> <<Head(boxes).xyxy[1], Head(boxes).xyxy[2] - 10>>]))

CamInit ==
  /\ pc = "camera"
  /\ envEquipment = NoSource
  /\ equipment_db = <<>>
  /\ envModel = NoSource
  /\ model = NoModel
  /\ routes = {}
  /\ req = <<>>
  /\ resp = NoResp
  /\ detCalls = <<>>
  /\ log = <<>>
  /\ result = NoResult
  /\ detections = <<>>
  /\ \E names \in NamesTables, opened \in BOOLEAN :
       cam = [pc |-> "while", names |-> names, opened |-> opened, frames |-> 0,
              boxes |-> <<>>, drawn |-> <<>>, inferred |-> 0, shown |-> 0,
              released |-> 0, destroyed |-> 0, error |-> "none"]

\* while cap.isOpened():
CamWhile ==
  /\ cam.pc = "while"
  /\ cam' = [cam EXCEPT !.pc = IF cam.opened THEN "read" ELSE "release"]
  /\ UNCHANGED <<serverVars, fmtVars>>

\* ret, frame = cap.read();  if not ret: break
CamRead ==
  /\ cam.pc = "read"
  /\ \/ /\ cam.frames < MaxFrames
        /\ cam' = [cam EXCEPT !.pc = "infer", !.frames = @ + 1,
                              !.boxes = <<>>, !.drawn = <<>>]
     \/ cam' = [cam EXCEPT !.pc = "release"]
  /\ UNCHANGED <<serverVars, fmtVars>>

\* results = model(frame, conf=0.4, imgsz=960)[0];  boxes = results.boxes
CamInfer ==
  /\ cam.pc = "infer"
  /\ \E out \in CamOutcomes :
       IF out.kind = "raise"
       THEN cam' = [cam EXCEPT !.pc = "traceback", !.error = "detector"]
       ELSE IF out.results = <<>>
       THEN cam' = [cam EXCEPT !.pc = "traceback", !.error = "IndexError"]
       ELSE cam' = [cam EXCEPT !.pc = "draw", !.inferred = @ + 1,
                               !.boxes = out.results[1]]
  /\ UNCHANGED <<serverVars, fmtVars>>

\* for box in boxes: ... cv2.rectangle, cv2.putText
CamDraw ==
  /\ cam.pc = "draw"
  /\ LET d == DrawBoxes(cam.names, cam.boxes, <<>>)
     IN IF d.ok
        THEN cam' = [cam EXCEPT !.pc = "show", !.drawn = d.drawn]
        ELSE cam' = [cam EXCEPT !.pc = "traceback", !.drawn = d.drawn,
                                !.error = "KeyError"]
  /\ UNCHANGED <<serverVars, fmtVars>>

\* cv2.imshow("YOLO Live Webcam", frame)
CamShow ==
  /\ cam.pc = "show"
  /\ cam' = [cam EXCEPT !.pc = "waitkey", !.shown = @ + 1]
  /\ UNCHANGED <<serverVars, fmtVars>>

\* if cv2.waitKey(1) & 0xFF == ord('q'): break
CamWaitKey ==
  /\ cam.pc = "waitkey"
  /\ \E key \in {"q", "x", "none"} :
       cam' = [cam EXCEPT !.pc = IF key = "q" THEN "release" ELSE "while"]
  /\ UNCHANGED <<serverVars, fmtVars>>

\* cap.release()
CamRelease ==
  /\ cam.pc = "release"
  /\ cam' = [cam EXCEPT !.pc = "destroy", !.released = @ + 1, !.opened = FALSE]
  /\ UNCHANGED <<serverVars, fmtVars>>

\* cv2.destroyAllWindows()
CamDestroy ==
  /\ cam.pc = "destroy"
  /\ cam' = [cam EXCEPT !.pc = "exit", !.destroyed = @ + 1]
  /\ UNCHANGED <<serverVars, fmtVars>>

CamNext ==
  \/ CamWhile
  \/ CamRead
  \/ CamInfer
  \/ CamDraw
  \/ CamShow
  \/ CamWaitKey
  \/ CamRelease
  \/ CamDestroy

CamSpec == CamInit /\ [][CamNext]_vars

(***************************************************************************)
(* Properties                                                              *)
(***************************************************************************)
Answered == req # <<>>

\* RFC 4648 base64: alphabet characters in groups of four, the last group
\* ending in at most two "="
StandardBase64(p) ==
  /\ Len(p) % 4 = 0
  /\ \A i \in 1..Len(p) :
       \/ B64Val(p[i]) < 64
       \/ /\ p[i] = "="
          /\ i > Len(p) - 2
          /\ \A j \in i..Len(p) : p[j] = "="

\* C1: the response status is decided by the failing stage: a decode failure
\* gives 400 with the decode message and no detector call; a detector call
\* that throws or returns no result gives 500; every other path gives 200.
C1_StatusByFailingStage ==
  Answered =>
    LET d == decode_image(req[1]) IN
    IF d.kind # "frame"
    THEN /\ resp.status = 400
         /\ resp.detail \in {"Invalid base64 string", "Unable to decode image"}
         /\ detCalls = <<>>
    ELSE /\ Len(detCalls) = 1
         /\ IF detCalls[1].kind = "raise" THEN resp.status = 500
            ELSE IF detCalls[1].results = <<>> THEN resp.status = 500
            ELSE resp.status = 200

\* C2: decode_image either returns a non-empty pixel grid or fails with
\* ValueError; it fails with ValueError on every payload that is not standard
\* base64, on corrupt image bytes and on an empty decoded buffer.
C2_DecodeOutcomes ==
  Answered =>
    LET p == Payload(req[1])
        d == decode_image(req[1])
    IN /\ d.kind \in {"frame", "ValueError"}
       /\ d.kind = "frame" => Len(d.frame) > 0
       /\ ~StandardBase64(p) => d.kind = "ValueError"
       /\ (StandardBase64(p) /\ b64decode(p).ok /\ b64decode(p).bytes = <<>>)
            => d.kind = "ValueError"
       /\ (StandardBase64(p) /\ b64decode(p).ok /\ b64decode(p).bytes # <<>>
             /\ b64decode(p).bytes[1] # 255)
            => d.kind = "ValueError"

\* C3: the detections format_detections returns are ordered by the reported
\* confidence, descending.
C3_RankedDescending ==
  pc = "format_return" =>
    \A i \in 1..(Len(detections) - 1) :
      detections[i].confidence >= detections[i + 1].confidence

C3_Witness ==
  /\ pc = "format_return"
  /\ Len(detections) >= 3
  /\ result.boxes[1].conf < result.boxes[2].conf
  /\ result.boxes[2].conf < result.boxes[3].conf
  /\ detections[1].confidence > detections[2].confidence
  /\ detections[2].confidence > detections[3].confidence

\* the place in detections of the i-th box the detector emitted
PlaceOf(i) ==
  CHOOSE k \in 1..Len(detections) : detections[k].bbox.x1 = result.boxes[i].xyxy[1]

\* C4: candidates whose rounded confidences are equal keep the detector's
\* emission order, also when their raw confidences differ.
C4_TiesKeepEmissionOrder ==
  pc = "format_return" =>
    \A i, j \in 1..Len(result.boxes) :
      (i < j /\ Round3(result.boxes[i].conf) = Round3(result.boxes[j].conf))
        => PlaceOf(i) < PlaceOf(j)

C4_Witness ==
  /\ pc = "format_return"
  /\ Len(result.boxes) >= 3
  /\ result.boxes[1].conf # result.boxes[2].conf
  /\ Round3(result.boxes[1].conf) = Round3(result.boxes[2].conf)
  /\ result.boxes[3].conf > result.boxes[2].conf
  /\ PlaceOf(3) = 1
  /\ PlaceOf(1) = 2
  /\ PlaceOf(2) = 3

\* C5: a success response has count = number of detections = number of raw
\* candidates, each candidate once, found exactly when count > 0, and is
\* {found: false, count: 0, detections: []} when the detector emits none.
C5_WellFormedResult ==
  (Answered /\ resp.status = 200) =>
    LET raw == detCalls[1].results[1].boxes
        b == resp.body
    IN /\ b.count = Len(b.detections)
       /\ b.count = Len(raw)
       /\ {b.detections[k].bbox.x1 : k \in 1..Len(b.detections)}
            = {raw[i].xyxy[1] : i \in 1..Len(raw)}
       /\ b.found = (b.count > 0)
       /\ raw = <<>> => b = [found |-> FALSE, count |-> 0, detections |-> <<>>]

C5_Witness ==
  /\ Answered
  /\ resp.status = 200
  /\ resp.body.count >= 2
  /\ resp.body.found
  /\ \E k \in 1..resp.body.count : resp.body.detections[k].details = None

\* the pairs of the source whose key, lower-cased, is the lower-cased label
Matches(label) ==
  IF envEquipment.exists
  THEN {i \in 1..Len(envEquipment.items) :
          lower(envEquipment.items[i][1]) = lower(label)}
  ELSE {}

\* C6: every record has a details field: the entry of the reference source
\* whose lower-cased key is the lower-cased label (the last such pair of the
\* source), and null when there is none.
C6_Enrichment ==
  pc = "format_return" =>
    \A k \in 1..Len(detections) :
      LET d == detections[k]
          m == Matches(d.label)
      IN /\ "details" \in DOMAIN d
         /\ IF m = {} THEN d.details = None
            ELSE d.details =
                   envEquipment.items[CHOOSE i \in m : \A j \in m : j <= i][2]

C6_Witness ==
  /\ pc = "format_return"
  /\ \E k, l \in 1..Len(detections) :
       /\ detections[k].label = WRENCH
       /\ detections[k].details = "spanner"
       /\ detections[l].label = Drill
       /\ detections[l].details = None

\* the label the claim expects for a class id
ExpectedLabel(names, cls_id) ==
  IF cls_id \in DOMAIN names THEN names[cls_id]
  ELSE <<"c", "l", "a", "s", "s", "_">> \o IntToStr(cls_id)

\* C7: label resolution never fails, in the camera loop as in the service:
\* a known class id gives its name, an unknown one the label class_<id>.
C7_LabelResolutionNeverFails ==
  /\ cam.pc # "off" =>
       /\ cam.error # "KeyError"
       /\ cam.pc \in {"show", "waitkey"} =>
            /\ Len(cam.drawn) = Len(cam.boxes)
            /\ \A i \in 1..Len(cam.boxes) :
                 cam.drawn[i].name = ExpectedLabel(cam.names, cam.boxes[i].cls)
  /\ pc = "format_return" =>
       \A i \in 1..Len(result.boxes) :
         detections[PlaceOf(i)].label = ExpectedLabel(result.names, result.boxes[i].cls)

\* C7, the service alone (format_detections): holds under FmtSpec
C7_ServiceLabels ==
  pc = "format_return" =>
    \A i \in 1..Len(result.boxes) :
      detections[PlaceOf(i)].label = ExpectedLabel(result.names, result.boxes[i].cls)

\* C8: routes exist only once a detector is loaded; a missing artifact stops
\* start-up before any route and no request is answered; a missing
\* equipment.json gives an empty table and start-up goes on to serving.
C8_StartupOrdering ==
  /\ routes # {} => model.loaded
  /\ pc = "serving" => (routes = Routes /\ model.loaded)
  /\ ~envModel.exists => (routes = {} /\ ~Answered /\ pc # "serving")
  /\ pc = "FileNotFoundError" => ~envModel.exists
  /\ (~envEquipment.exists /\ pc # "load_equipment") => equipment_db = <<>>
  /\ (envModel.exists /\ pc \in {"load_equipment", "load_model", "create_app"})
       => ENABLED (LoadEquipment \/ LoadModel \/ CreateApp)

C8_Witness ==
  /\ pc = "serving"
  /\ ~envEquipment.exists
  /\ equipment_db = <<>>
  /\ Answered
  /\ resp.status = 200

\* C9: requests leave the reference table and the detector unchanged, and
\* equal images get equal responses whatever was requested in between.
C9_RequestsIsolated ==
  /\ \A i \in 1..Len(log) :
       /\ log[i].equipment_db = equipment_db
       /\ log[i].model = model
       /\ Answered /\ req[1] = log[i].image => resp = log[i].resp
  /\ \A i, j \in 1..Len(log) :
       log[i].image = log[j].image => log[i].resp = log[j].resp

C9_Witness ==
  /\ Len(log) >= 3
  /\ log[1].image = log[3].image
  /\ log[1].resp.status = 200
  /\ log[1].resp.body.count > 0
  /\ \E k \in 1..log[1].resp.body.count :
       log[1].resp.body.detections[k].details # None
  /\ log[2].resp.status # 200

CamTerminated == cam.pc \in {"exit", "traceback"}

\* C10: the loop runs the pipeline and renders only for a captured frame, and
\* every terminating run has released the device and destroyed the windows
\* exactly once, after the last iteration.
C10_ReleasedOnceOnTermination ==
  /\ cam.shown <= cam.inferred
  /\ cam.inferred <= cam.frames
  /\ cam.released <= 1
  /\ cam.destroyed <= cam.released
  /\ CamTerminated => (cam.released = 1 /\ cam.destroyed = 1)

====
